---- MODULE Spec2Model ----
(***************************************************************************)
(* Model of main.py of FNF-Spritesheet-Converter: the Sprite record, the   *)
(* SubTexture parser, the uniform-cell repacker and the XML rewriter, run  *)
(* in sequence by generate_new_spritesheet.  Pixel contents are not        *)
(* modelled; images are represented by their sizes and paste rectangles.   *)
(***************************************************************************)
EXTENDS Integers, Sequences, FiniteSets, TLC

\* ------------------------------------------------------------------ bounds
\* Longest SubTexture list drawn from the attribute-rich descriptor pool.
MaxDescriptors == 2
\* Longest SubTexture list drawn from the row-of-sprites (atlas-like) pool.
MaxGridSprites == 4
\* Number of times the tool is run, each run on the previous run's output.
MaxRuns == 2

\* ------------------------------------------------------- program constants
SPRITE_SIZE_MULTIPLE == 4

\* ------------------------------------------------ attribute text <-> int
\* An attribute value is text: a sequence of one-character strings.
\* An attribute of an element is <<>> when absent and <<text>> when present.
Digits == <<"0", "1", "2", "3", "4", "5", "6", "7", "8", "9">>

DigitVal(c) == (CHOOSE d \in 1..10 : Digits[d] = c) - 1

RECURSIVE ParseDigits(_, _)
ParseDigits(s, acc) ==
    IF s = <<>> THEN acc
    ELSE ParseDigits(Tail(s), acc * 10 + DigitVal(Head(s)))

\* int(text): optional sign followed by decimal digits.
IntOf(s) ==
    IF Head(s) = "-" THEN 0 - ParseDigits(Tail(s), 0)
    ELSE IF Head(s) = "+" THEN ParseDigits(Tail(s), 0)
    ELSE ParseDigits(s, 0)

RECURSIVE Dec(_)
Dec(n) == IF n < 10 THEN <<Digits[n + 1]>>
          ELSE Dec(n \div 10) \o <<Digits[(n % 10) + 1]>>

\* str(int)
StrOf(n) == IF n < 0 THEN <<"-">> \o Dec(0 - n) ELSE Dec(n)

\* bool(sub_texture.get("rotated", False)): absent -> False, otherwise the
\* truth value of the string, i.e. whether it is non-empty.
BoolOfAttr(a) == IF a = <<>> THEN FALSE ELSE a[1] # <<>>

\* int(sub_texture.get(key, 0))
IntOfAttr(a) == IF a = <<>> THEN 0 ELSE IntOf(a[1])

\* ------------------------------------------------------------------ Sprite
\* Variant of Sprite whose __post_init__ swaps width/height only.
Sprite_NoOffsetSwap(name, x, y, width, height, pos_x, pos_y, rotated) ==
    [name |-> name, x |-> x, y |-> y,
     width  |-> IF rotated THEN height ELSE width,
     height |-> IF rotated THEN width ELSE height,
     pos_x  |-> pos_x,
     pos_y  |-> pos_y,
     rotated |-> rotated]

\* Sprite(...) followed by __post_init__.
Sprite(name, x, y, width, height, pos_x, pos_y, rotated) ==
    [name |-> name, x |-> x, y |-> y,
     width  |-> IF rotated THEN height ELSE width,
     height |-> IF rotated THEN width ELSE height,
     pos_x  |-> IF rotated THEN pos_y ELSE pos_x,
     pos_y  |-> IF rotated THEN pos_x ELSE pos_y,
     rotated |-> rotated]

\* Variant of __eq__ that also compares the name (the dataclass default would).
SpriteEq_WithName(a, b) ==
    /\ a.name = b.name
    /\ a.x = b.x /\ a.y = b.y
    /\ a.width = b.width /\ a.height = b.height
    /\ a.pos_x = b.pos_x /\ a.pos_y = b.pos_y

\* Sprite.__eq__
SpriteEq(a, b) ==
    /\ a.x = b.x /\ a.y = b.y
    /\ a.width = b.width /\ a.height = b.height
    /\ a.pos_x = b.pos_x /\ a.pos_y = b.pos_y

\* Variant of the containment test that matches on the position alone.
SpriteIn_ByPosition(sprite, list) ==
    \E k \in 1..Len(list) : list[k].x = sprite.x /\ list[k].y = sprite.y

\* `sprite in sprite_list`
SpriteIn(sprite, list) == \E k \in 1..Len(list) : SpriteEq(list[k], sprite)

\* sprite_list.index(sprite), 1-based; 0 stands for the ValueError.
SpriteIndex(list, sprite) ==
    IF \E k \in 1..Len(list) : SpriteEq(list[k], sprite)
    THEN CHOOSE k \in 1..Len(list) :
            /\ SpriteEq(list[k], sprite)
            /\ \A j \in 1..(k - 1) : ~SpriteEq(list[j], sprite)
    ELSE 0

\* The Sprite built from one SubTexture element (parse_sprites and
\* update_xml_with_new_sprites build it the same way).
SpriteOfSubTexture(st) ==
    Sprite(st.name, IntOf(st.x), IntOf(st.y), IntOf(st.width), IntOf(st.height),
           IntOfAttr(st.frameX), IntOfAttr(st.frameY), BoolOfAttr(st.rotated))

\* ----------------------------------------------------------------- helpers
\* Variant of max that keeps the latest value.
Max_Last(a, b) == b

Max(a, b) == IF a >= b THEN a ELSE b

\* int.bit_length() for n >= 0
RECURSIVE BitLength(_)
BitLength(n) == IF n = 0 THEN 0 ELSE 1 + BitLength(n \div 2)

\* Variant without the "- 1": the next power of two strictly greater.
next_power_of_two_NoDecrement(number) ==
    IF number = 0 THEN 1 ELSE 2 ^ BitLength(number)

next_power_of_two(number) ==
    IF number = 0 THEN 1 ELSE 2 ^ BitLength(number - 1)

\* Variant without the remainder test: a multiple is pushed to the next one.
next_multiple_Always(number, multiple_requested) ==
    number + (multiple_requested - (number % multiple_requested))

\* Variant that does not round at all.
next_multiple_Identity(number, multiple_requested) == number

next_multiple(number, multiple_requested) ==
    IF number % multiple_requested # 0
    THEN number + (multiple_requested - (number % multiple_requested))
    ELSE number

\* math.ceil(math.sqrt(n)) for n >= 0 (exact for the magnitudes modelled)
RECURSIVE CeilSqrtFrom(_, _)
CeilSqrtFrom(n, s) == IF s * s >= n THEN s ELSE CeilSqrtFrom(n, s + 1)

CeilSqrt(n) == CeilSqrtFrom(n, 0)

\* --------------------------------------------------------------- SubTexture
\* One SubTexture element: required name, x, y, width, height (text) and the
\* optional frameX, frameY, rotated (<<>> when absent).  frameWidth and
\* frameHeight are never read and are not represented.
SubTexture(name, x, y, width, height, frameX, frameY, rotated) ==
    [name |-> name, x |-> x, y |-> y, width |-> width, height |-> height,
     frameX |-> frameX, frameY |-> frameY, rotated |-> rotated]

\* --------------------------------------------------------- parse_sprites
RECURSIVE ParseLoop(_, _, _, _, _)
ParseLoop(root, i, sprite_list, max_width, max_height) ==
    IF i > Len(root)
    THEN [sprite_list |-> sprite_list,
          max_width  |-> next_multiple(max_width, SPRITE_SIZE_MULTIPLE),
          max_height |-> next_multiple(max_height, SPRITE_SIZE_MULTIPLE)]
    ELSE LET sprite == SpriteOfSubTexture(root[i])
         IN  ParseLoop(root, i + 1,
                       IF SpriteIn(sprite, sprite_list) THEN sprite_list
                       ELSE Append(sprite_list, sprite),
                       Max(max_width, sprite.width - sprite.pos_x),
                       Max(max_height, sprite.height - sprite.pos_y))

parse_sprites(root) == ParseLoop(root, 1, <<>>, 0, 0)

\* ------------------------------------------------ create_new_spritesheet
\* Image.crop(box) and Image.transpose(ROTATE_90), sizes only.
Crop(left, upper, right, lower) == [w |-> right - left, h |-> lower - upper]

Rotate90(image) == [w |-> image.h, h |-> image.w]

\* Variant that crops a rotated sprite but does not turn it back.
CroppedImage_NoRotate(sprite) ==
    IF sprite.rotated
    THEN Crop(sprite.x, sprite.y,
              sprite.x + sprite.height, sprite.y + sprite.width)
    ELSE Crop(sprite.x, sprite.y,
              sprite.x + sprite.width, sprite.y + sprite.height)

CroppedImage(sprite) ==
    IF sprite.rotated
    THEN Rotate90(Crop(sprite.x, sprite.y,
                       sprite.x + sprite.height, sprite.y + sprite.width))
    ELSE Crop(sprite.x, sprite.y,
              sprite.x + sprite.width, sprite.y + sprite.height)

AtlasSide(sprite_list, max_width, max_height) ==
    next_power_of_two(CeilSqrt(Len(sprite_list) * max_width * max_height))

\* Variant of the row wrap that resets x but stays on the same row.
WrapCursor_NoRowAdvance(cur, max_width, max_height, side) ==
    IF cur.x + max_width > side
    THEN [x |-> 0, y |-> cur.y]
    ELSE cur

\* The row wrap taken before a sprite is placed.
WrapCursor(cur, max_width, max_height, side) ==
    IF cur.x + max_width > side
    THEN [x |-> 0, y |-> cur.y + max_height]
    ELSE cur

RECURSIVE PlaceLoop(_, _, _, _, _, _, _, _)
PlaceLoop(sprite_list, k, max_width, max_height, side, cur, new_list, pasted) ==
    IF k > Len(sprite_list)
    THEN [new_sprite_list |-> new_list, pastes |-> pasted]
    ELSE LET sprite == sprite_list[k]
             image  == CroppedImage(sprite)
             at     == WrapCursor(cur, max_width, max_height, side)
             new_sprite == Sprite(sprite.name, at.x, at.y,
                                  max_width, max_height, 0, 0, FALSE)
         IN  PlaceLoop(sprite_list, k + 1, max_width, max_height, side,
                       [x |-> at.x + max_width, y |-> at.y],
                       Append(new_list, new_sprite),
                       Append(pasted, [x |-> at.x - sprite.pos_x,
                                       y |-> at.y - sprite.pos_y,
                                       w |-> image.w, h |-> image.h]))

create_new_spritesheet(sprite_list, max_width, max_height) ==
    LET side == AtlasSide(sprite_list, max_width, max_height)
        r == PlaceLoop(sprite_list, 1, max_width, max_height, side,
                       [x |-> 0, y |-> 0], <<>>, <<>>)
    IN  [new_dimensions |-> side,
         new_sprite_list |-> r.new_sprite_list,
         pastes |-> r.pastes]

\* ------------------------------------------- update_xml_with_new_sprites
\* The attribute writes and deletions done on one element.
Rewritten(st, new_sprite) ==
    [st EXCEPT !.x = StrOf(new_sprite.x), !.y = StrOf(new_sprite.y),
               !.width = StrOf(new_sprite.width),
               !.height = StrOf(new_sprite.height),
               !.frameX = <<>>, !.frameY = <<>>, !.rotated = <<>>]

RECURSIVE UpdateLoop(_, _, _, _)
UpdateLoop(root, i, original_sprite_list, new_list) ==
    IF i > Len(root)
    THEN [xml |-> root, error |-> "none"]
    ELSE LET original_sprite == SpriteOfSubTexture(root[i])
             index == SpriteIndex(original_sprite_list, original_sprite)
         IN  IF index = 0
             THEN [xml |-> root, error |-> "ValueError"]
             ELSE UpdateLoop([root EXCEPT ![i] = Rewritten(root[i], new_list[index])],
                             i + 1, original_sprite_list, new_list)

update_xml_with_new_sprites(root, original_sprite_list, new_list) ==
    UpdateLoop(root, 1, original_sprite_list, new_list)

\* ------------------------------------------------------------------ inputs
Text(n) == StrOf(n)

\* Attribute-rich descriptors: names, non-canonical number text, frame
\* offsets of both signs, rotated absent / empty / "false" (any non-empty
\* text, "true" included, coerces like "false").
RichPool ==
    {SubTexture(n, Text(0), Text(0), w, Text(8), fx, <<>>, r) :
        n \in {"a", "b"},
        w \in {Text(3), <<"0", "8">>},
        fx \in {<<>>, <<Text(0 - 2)>>, <<Text(1)>>},
        r \in {<<>>, << <<>> >>, << <<"f", "a", "l", "s", "e">> >>}}

\* Atlas-like inputs: sprite i of a row sits at x = 64 * (i - 1), untrimmed.
GridSizes == {<<16, 20>>, <<12, 4>>, <<4, 4>>, <<6, 10>>, <<40, 4>>,
              <<0, 4>>, <<12, 0>>}

GridRows(n) ==
    {[i \in 1..n |-> SubTexture("s", Text(64 * (i - 1)), Text(0),
                                Text(sizes[i][1]), Text(sizes[i][2]),
                                <<>>, <<>>, <<>>)] :
        sizes \in [1..n -> GridSizes]}

\* SubTexture lists of up to MaxDescriptors attribute-rich descriptors.
RichLists(n) == [1..n -> RichPool]

\* ------------------------------------------------------------------- state
VARIABLES
    pc,               \* next step of generate_new_spritesheet
    run,              \* which run of the tool this is
    input,            \* the SubTexture list as loaded by this run
    xml,              \* xml_root's SubTexture list (rewritten in place)
    sprite_list, max_width, max_height,         \* parse_sprites results
    new_dimensions, new_sprite_list, pastes,    \* create_new_spritesheet results
    error,            \* "none" or the exception that ended the run
    exported          \* what each finished run saved

vars == <<pc, run, input, xml, sprite_list, max_width, max_height,
          new_dimensions, new_sprite_list, pastes, error, exported>>

\* load_spritesheet of the first run.
Init ==
    /\ \/ \E n \in 0..MaxDescriptors : xml \in RichLists(n)
       \/ \E n \in 1..MaxGridSprites : xml \in GridRows(n)
    /\ input = xml
    /\ pc = "parse"
    /\ run = 1
    /\ sprite_list = <<>> /\ max_width = 0 /\ max_height = 0
    /\ new_dimensions = 0 /\ new_sprite_list = <<>> /\ pastes = <<>>
    /\ error = "none"
    /\ exported = <<>>

ParseSprites ==
    /\ pc = "parse"
    /\ LET r == parse_sprites(xml)
       IN  /\ sprite_list' = r.sprite_list
           /\ max_width' = r.max_width
           /\ max_height' = r.max_height
    /\ pc' = "create"
    /\ UNCHANGED <<run, input, xml, new_dimensions, new_sprite_list, pastes,
                   error, exported>>

CreateNewSpritesheet ==
    /\ pc = "create"
    /\ LET r == create_new_spritesheet(sprite_list, max_width, max_height)
       IN  /\ new_dimensions' = r.new_dimensions
           /\ new_sprite_list' = r.new_sprite_list
           /\ pastes' = r.pastes
    /\ pc' = "update"
    /\ UNCHANGED <<run, input, xml, sprite_list, max_width, max_height,
                   error, exported>>

UpdateXml ==
    /\ pc = "update"
    /\ LET r == update_xml_with_new_sprites(xml, sprite_list, new_sprite_list)
       IN  /\ xml' = r.xml
           /\ error' = r.error
           /\ pc' = IF r.error = "none" THEN "save" ELSE "failed"
    /\ UNCHANGED <<run, input, sprite_list, max_width, max_height,
                   new_dimensions, new_sprite_list, pastes, exported>>

\* save_new_spritesheet_and_xml: the PNG (its side) and the XML are written.
Save ==
    /\ pc = "save"
    /\ exported' = Append(exported,
                          [xml |-> xml, side |-> new_dimensions,
                           max_width |-> max_width, max_height |-> max_height])
    /\ pc' = "done"
    /\ UNCHANGED <<run, input, xml, sprite_list, max_width, max_height,
                   new_dimensions, new_sprite_list, pastes, error>>

\* The tool is started again on the files the previous run exported.
Rerun ==
    /\ pc = "done"
    /\ run < MaxRuns
    /\ run' = run + 1
    /\ xml' = exported[Len(exported)].xml
    /\ input' = xml'
    /\ pc' = "parse"
    /\ sprite_list' = <<>> /\ max_width' = 0 /\ max_height' = 0
    /\ new_dimensions' = 0 /\ new_sprite_list' = <<>> /\ pastes' = <<>>
    /\ UNCHANGED <<error, exported>>

Next == ParseSprites \/ CreateNewSpritesheet \/ UpdateXml \/ Save \/ Rerun

Spec == Init /\ [][Next]_vars

\* ================================================================= claims
\* Positions of generate_new_spritesheet: parse_sprites, create_new_spritesheet
\* and update_xml_with_new_sprites have just returned (their results are not
\* assigned again before the next run).
Parsed  == pc = "create"
Created == pc = "update"
Updated == pc = "save"

\* The raw integer values of a descriptor and its rotated truth value.
RawOf(st) ==
    [x |-> IntOf(st.x), y |-> IntOf(st.y),
     width |-> IntOf(st.width), height |-> IntOf(st.height),
     frameX |-> IF st.frameX = <<>> THEN 0 ELSE IntOf(st.frameX[1]),
     frameY |-> IF st.frameY = <<>> THEN 0 ELSE IntOf(st.frameY[1]),
     rotated |-> (st.rotated # <<>> /\ st.rotated # << <<>> >>)]

\* The normalized geometry the specification prescribes for a descriptor.
ExpectedGeometry(st) ==
    LET raw == RawOf(st)
    IN  IF raw.rotated
        THEN [x |-> raw.x, y |-> raw.y,
              width |-> raw.height, height |-> raw.width,
              pos_x |-> raw.frameY, pos_y |-> raw.frameX]
        ELSE [x |-> raw.x, y |-> raw.y,
              width |-> raw.width, height |-> raw.height,
              pos_x |-> raw.frameX, pos_y |-> raw.frameY]

GeometryOf(s) ==
    [x |-> s.x, y |-> s.y, width |-> s.width, height |-> s.height,
     pos_x |-> s.pos_x, pos_y |-> s.pos_y]

\* ---- C1
\* C1: every repacked record lies inside the square atlas of the computed
\* side: x >= 0, y >= 0, x + cell_w <= side, y + cell_h <= side.
\* (Stated as in the claim; the code violates it.)
C1_RecordsInsideAtlas ==
    Created =>
        \A k \in 1..Len(new_sprite_list) :
            LET r == new_sprite_list[k]
            IN  /\ r.x >= 0 /\ r.y >= 0
                /\ r.x + max_width <= new_dimensions
                /\ r.y + max_height <= new_dimensions

\* ---- C2
\* C2: every catalog record is the normalization of some input descriptor
\* (unchanged values when not rotated; width/height and pos_x/pos_y swapped
\* when rotated; x, y and the rotated flag kept), and every descriptor's
\* normalized geometry is in the catalog.
C2_SpriteNormalized ==
    Parsed =>
        /\ \A k \in 1..Len(sprite_list) :
              \E i \in 1..Len(input) :
                  /\ GeometryOf(sprite_list[k]) = ExpectedGeometry(input[i])
                  /\ sprite_list[k].rotated = RawOf(input[i]).rotated
                  /\ sprite_list[k].name = input[i].name
        /\ \A i \in 1..Len(input) :
              \E k \in 1..Len(sprite_list) :
                  GeometryOf(sprite_list[k]) = ExpectedGeometry(input[i])

C2_Witness ==
    /\ Parsed /\ run = 1
    /\ \E k \in 1..Len(sprite_list) :
          /\ sprite_list[k].rotated
          /\ sprite_list[k].width # sprite_list[k].height
          /\ sprite_list[k].pos_x # sprite_list[k].pos_y

\* ---- C3
\* The case of C3: exactly two descriptors with identical raw x, y, width,
\* height, frameX, frameY and a different name and/or rotated attribute.
C3_Case ==
    /\ Parsed /\ run = 1 /\ Len(input) = 2
    /\ LET a == RawOf(input[1])
           b == RawOf(input[2])
       IN  /\ a.x = b.x /\ a.y = b.y
           /\ a.width = b.width /\ a.height = b.height
           /\ a.frameX = b.frameX /\ a.frameY = b.frameY
    /\ (input[1].name # input[2].name \/ input[1].rotated # input[2].rotated)

\* C3 as stated: in that case the catalog has size 1.
C3_Original == C3_Case => Len(sprite_list) = 1

\* C3 amended: the catalog has size 1 exactly when the two rotated
\* attributes coerce to the same boolean, or width = height and
\* frameX = frameY; otherwise it has size 2.
C3_Amended ==
    C3_Case =>
        LET a == RawOf(input[1])
            b == RawOf(input[2])
            collapses == \/ a.rotated = b.rotated
                         \/ (a.width = a.height /\ a.frameX = a.frameY)
        IN  Len(sprite_list) = IF collapses THEN 1 ELSE 2

C3_Witness ==
    /\ C3_Case
    /\ input[1].name # input[2].name
    /\ input[1].rotated # input[2].rotated
    /\ RawOf(input[1]).rotated = RawOf(input[2]).rotated
    /\ RawOf(input[1]).width # RawOf(input[1]).height
    /\ Len(sprite_list) = 1

\* ---- C4
\* Index of the first catalog entry geometry-equal to a descriptor's
\* normalized record; 0 when there is none.
FirstMatch(st) ==
    LET hits == {k \in 1..Len(sprite_list) :
                    GeometryOf(sprite_list[k]) = ExpectedGeometry(st)}
    IN  IF hits = {} THEN 0
        ELSE CHOOSE k \in hits : \A j \in hits : k <= j

\* C4: the geometry lookup never fails, and after the rewrite every
\* descriptor carries the x, y, width, height of the repacked record at the
\* index of the first catalog entry equal to its normalized record.
C4_LookupAndRewrite ==
    /\ error = "none"
    /\ pc # "failed"
    /\ Updated =>
          /\ Len(xml) = Len(input)
          /\ \A i \in 1..Len(input) :
                LET k == FirstMatch(input[i])
                IN  /\ k # 0
                    /\ IntOf(xml[i].x) = new_sprite_list[k].x
                    /\ IntOf(xml[i].y) = new_sprite_list[k].y
                    /\ IntOf(xml[i].width) = new_sprite_list[k].width
                    /\ IntOf(xml[i].height) = new_sprite_list[k].height

C4_Witness ==
    /\ Updated /\ run = 1
    /\ Len(input) = 2 /\ Len(sprite_list) = 1
    /\ input[1].name # input[2].name
    /\ input[1].rotated # input[2].rotated
    /\ xml[2].x = xml[1].x
    /\ xml[2].width # input[2].width
    /\ IntOf(xml[2].width) = IntOf(input[2].width)

\* ---- C5
\* C5: a run on the previous run's output computes the same cell_w, cell_h
\* and atlas side, and leaves every descriptor's x, y, width, height as the
\* previous run wrote them.
C5_SecondRunStable ==
    \A r \in 2..Len(exported) :
        /\ exported[r].max_width = exported[r - 1].max_width
        /\ exported[r].max_height = exported[r - 1].max_height
        /\ exported[r].side = exported[r - 1].side
        /\ Len(exported[r].xml) = Len(exported[r - 1].xml)
        /\ \A i \in 1..Len(exported[r].xml) :
              /\ exported[r].xml[i].x = exported[r - 1].xml[i].x
              /\ exported[r].xml[i].y = exported[r - 1].xml[i].y
              /\ exported[r].xml[i].width = exported[r - 1].xml[i].width
              /\ exported[r].xml[i].height = exported[r - 1].xml[i].height

C5_Witness ==
    /\ Len(exported) >= 2
    /\ Len(exported[2].xml) >= 3
    /\ exported[2].max_width = 16 /\ exported[2].max_height = 20
    /\ \E i \in 1..Len(exported[2].xml) : IntOf(exported[2].xml[i].y) > 0

\* ---- C6
\* C6: x, y, width, height of every repacked record, and of every rewritten
\* descriptor, are multiples of SPRITE_SIZE_MULTIPLE = 4.
C6_MultiplesOfFour ==
    /\ Created =>
          \A k \in 1..Len(new_sprite_list) :
              /\ new_sprite_list[k].x % 4 = 0
              /\ new_sprite_list[k].y % 4 = 0
              /\ new_sprite_list[k].width % 4 = 0
              /\ new_sprite_list[k].height % 4 = 0
    /\ Updated =>
          \A i \in 1..Len(xml) :
              /\ IntOf(xml[i].x) % 4 = 0
              /\ IntOf(xml[i].y) % 4 = 0
              /\ IntOf(xml[i].width) % 4 = 0
              /\ IntOf(xml[i].height) % 4 = 0

C6_Witness ==
    /\ Updated /\ run = 1
    /\ \E i \in 1..Len(input) : IntOf(input[i].width) % 4 # 0
    /\ \E i \in 1..Len(input) : IntOf(input[i].height) % 4 # 0
    /\ \E k \in 1..Len(new_sprite_list) : new_sprite_list[k].x > 0
    /\ \E k \in 1..Len(new_sprite_list) : new_sprite_list[k].y > 0

\* ---- C7
\* Largest width - pos_x (height - pos_y) over the normalized records of all
\* input descriptors, the running maximum starting at 0.
MaxTrimWidth ==
    LET vals == {ExpectedGeometry(input[i]).width - ExpectedGeometry(input[i]).pos_x :
                    i \in 1..Len(input)} \cup {0}
    IN  CHOOSE m \in vals : \A v \in vals : v <= m

MaxTrimHeight ==
    LET vals == {ExpectedGeometry(input[i]).height - ExpectedGeometry(input[i]).pos_y :
                    i \in 1..Len(input)} \cup {0}
    IN  CHOOSE m \in vals : \A v \in vals : v <= m

\* c is n when n % 4 = 0 and otherwise the smallest multiple of 4 above n.
IsNextMultipleOf4(c, n) ==
    IF n % 4 = 0 THEN c = n
    ELSE c % 4 = 0 /\ c > n /\ c - n < 4

\* C7: parse_sprites returns the maxima rounded up to the next multiple of 4.
C7_CellSize ==
    Parsed =>
        /\ IsNextMultipleOf4(max_width, MaxTrimWidth)
        /\ IsNextMultipleOf4(max_height, MaxTrimHeight)

C7_Witness ==
    /\ Parsed /\ run = 1
    /\ Len(input) = 2 /\ Len(sprite_list) = 2
    /\ ExpectedGeometry(input[2]).width - ExpectedGeometry(input[2]).pos_x < MaxTrimWidth
    /\ MaxTrimWidth % 4 # 0
    /\ MaxTrimHeight % 4 = 0
    /\ max_width > MaxTrimWidth

\* ---- C8
TotalArea == Len(sprite_list) * max_width * max_height

RECURSIVE IsPowerOfTwo(_)
IsPowerOfTwo(p) == p = 1 \/ (p > 1 /\ p % 2 = 0 /\ IsPowerOfTwo(p \div 2))

\* C8: the atlas side is a power of two; it is 1 when the total area is 0,
\* and otherwise the smallest power of two whose square covers the total
\* area (i.e. the smallest power of two >= ceil(sqrt(total area))); and
\* next_power_of_two(0) = 1, (5) = 8, (16) = 16.
C8_SidePowerOfTwo ==
    /\ Created =>
          /\ IsPowerOfTwo(new_dimensions)
          /\ TotalArea = 0 => new_dimensions = 1
          /\ TotalArea > 0 =>
                /\ new_dimensions * new_dimensions >= TotalArea
                /\ \/ new_dimensions = 1
                   \/ (new_dimensions \div 2) * (new_dimensions \div 2) < TotalArea
    /\ next_power_of_two(0) = 1
    /\ next_power_of_two(5) = 8
    /\ next_power_of_two(16) = 16

C8_Witness ==
    /\ Created /\ run = 1
    /\ Len(sprite_list) = 4
    /\ TotalArea = new_dimensions * new_dimensions
    /\ new_dimensions = 8

\* ---- C9
CellsDisjoint(a, b) ==
    \/ a.x + a.width <= b.x \/ b.x + b.width <= a.x
    \/ a.y + a.height <= b.y \/ b.y + b.height <= a.y

\* C9: with cell_w > 0 and cell_h > 0 the cells of distinct catalog entries
\* are pairwise disjoint.
C9_CellsDisjoint ==
    (Created /\ max_width > 0 /\ max_height > 0) =>
        \A j \in 1..Len(new_sprite_list) :
            \A k \in (j + 1)..Len(new_sprite_list) :
                CellsDisjoint(new_sprite_list[j], new_sprite_list[k])

C9_Witness ==
    /\ Created /\ run = 1
    /\ max_width > new_dimensions
    /\ Len(new_sprite_list) >= 2
    /\ new_sprite_list[1].y > 0

\* ---- C10
\* C10: for a catalog sprite with pos_x <= 0 and pos_y <= 0 the pasted
\* rectangle starts at (cell_x - pos_x, cell_y - pos_y), has the normalized
\* width x height, and lies inside the sprite's own cell.
C10_PasteInsideCell ==
    Created =>
        \A k \in 1..Len(sprite_list) :
            (sprite_list[k].pos_x <= 0 /\ sprite_list[k].pos_y <= 0) =>
                LET cell == new_sprite_list[k]
                    p    == pastes[k]
                IN  /\ p.x = cell.x - sprite_list[k].pos_x
                    /\ p.y = cell.y - sprite_list[k].pos_y
                    /\ p.w = sprite_list[k].width
                    /\ p.h = sprite_list[k].height
                    /\ p.x >= cell.x /\ p.y >= cell.y
                    /\ p.x + p.w <= cell.x + max_width
                    /\ p.y + p.h <= cell.y + max_height

C10_Witness ==
    /\ Created /\ run = 1
    /\ \E k \in 1..Len(sprite_list) :
          /\ sprite_list[k].rotated
          /\ sprite_list[k].pos_y < 0
          /\ sprite_list[k].pos_x = 0
          /\ sprite_list[k].width # sprite_list[k].height
          /\ pastes[k].x + pastes[k].w = new_sprite_list[k].x + max_width

====
